---- MODULE Spec2Model ----
(***************************************************************************)
(* A model of wzshiming/httpseek: the Seeker (httpseek.go), which presents *)
(* an HTTP resource as a seekable byte stream by issuing ranged GETs, and  *)
(* the retry layer (mustReader and mustReaderTransport), which re-seeks    *)
(* the Seeker when a read fails.                                           *)
(*                                                                         *)
(* The transport, the server behind it, the response bodies and the        *)
(* caller's error handler are the environment: every answer they can give  *)
(* is drawn from a small set with \E.                                      *)
(***************************************************************************)
EXTENDS Integers, Sequences, FiniteSets, TLC

(***************************************************************************)
(* Bounds of the model.                                                    *)
(***************************************************************************)
\* Length of the served resource, in bytes.
ResourceLen == 3
\* Largest buffer a caller passes to Read.
MaxBuf == 2
\* Width of the model's unsigned integers (uint64 in the code, scaled down so
\* that the wrap-around of endByte+1 is within reach of the model checker).
UintBits == 4

(***************************************************************************)
(* Program constants.                                                      *)
(***************************************************************************)
\* for i := 0; i < 10; i++
RedirectLimit == 10
StatusOK == 200
StatusNoContent == 204
StatusPartialContent == 206
StatusFound == 302
\* A status outside the cases of reader's switch (what ServeContent answers to
\* a range that starts at or after the end).
StatusRangeNotSatisfiable == 416
\* io.SeekStart, io.SeekCurrent, io.SeekEnd
SeekStart == 0
SeekCurrent == 1
SeekEnd == 2

RECURSIVE Pow2(_)
Pow2(k) ==
    IF k = 0 THEN 1 ELSE 2 * Pow2(k - 1)

\* math.MaxUint64 and math.MaxInt64 at the model's width.
MaxUint64 == Pow2(UintBits) - 1
MaxInt64 == Pow2(UintBits - 1) - 1

Min(a, b) ==
    IF a < b THEN a ELSE b

\* The resource: ResourceLen distinct bytes 1, 2, ..., so that a lost, repeated
\* or foreign byte shows in what the caller receives.
Resource ==
    [i \in 1..ResourceLen |-> i]

\* A byte that is not part of the resource (the text of an error page).
JunkByte ==
    ResourceLen + 1

\* The bytes of the resource from absolute offset t on.
Suffix(t) ==
    IF t >= ResourceLen THEN << >> ELSE SubSeq(Resource, t + 1, ResourceLen)

IsPrefix(a, b) ==
    /\ Len(a) <= Len(b)
    /\ SubSeq(b, 1, Len(a)) = a

\* Offsets the model lets the Seeker reach.
MaxOffset ==
    ResourceLen + 2

(***************************************************************************)
(* Text: header values are sequences of one-character strings.             *)
(***************************************************************************)
DigitChars ==
    <<"0", "1", "2", "3", "4", "5", "6", "7", "8", "9">>

Digits ==
    {DigitChars[i] : i \in 1..10}

IsDigit(c) ==
    c \in Digits

DigitVal(c) ==
    (CHOOSE i \in 1..10 : DigitChars[i] = c) - 1

\* fmt.Sprintf("%d", n)
RECURSIVE Itoa(_)
Itoa(n) ==
    IF n < 10 THEN <<DigitChars[n + 1]>>
    ELSE Itoa(n \div 10) \o <<DigitChars[(n % 10) + 1]>>

\* strconv.ParseUint(s, 10, 64): the value, or an error for an empty string, a
\* character that is no digit, or a value out of range.
RECURSIVE ParseDigits(_, _)
ParseDigits(s, acc) ==
    IF s = << >> THEN acc
    ELSE IF acc > MaxUint64 THEN acc
    ELSE ParseDigits(Tail(s), 10 * acc + DigitVal(Head(s)))

InRange(v) ==
    IF v > MaxUint64 THEN [ok |-> FALSE, val |-> 0] ELSE [ok |-> TRUE, val |-> v]

ParseUint(s) ==
    IF s = << >> \/ \E i \in 1..Len(s) : ~IsDigit(s[i])
    THEN [ok |-> FALSE, val |-> 0]
    ELSE InRange(ParseDigits(s, 0))

\* The longest run of characters satisfying a test at the front of s.
RECURSIVE DigitRun(_)
DigitRun(s) ==
    IF s # << >> /\ IsDigit(Head(s)) THEN <<Head(s)>> \o DigitRun(Tail(s))
    ELSE << >>

RECURSIVE BackslashRun(_)
BackslashRun(s) ==
    IF s # << >> /\ Head(s) = "\\" THEN <<Head(s)>> \o BackslashRun(Tail(s))
    ELSE << >>

Drop(s, k) ==
    SubSeq(s, k + 1, Len(s))

BytesLit ==
    <<"b", "y", "t", "e", "s", " ">>

\* One attempt of contentRangeRegexp at the front of s:
\*   bytes ([0-9]+)-([0-9]+)/([0-9]+|\\*)
\* The source is a raw string, so the last alternative is the regular
\* expression \\* : zero or more backslashes, which matches the empty string.
\* The third group: [0-9]+ if a digit follows, else \\* .
Group3(rest, digits) ==
    IF digits # << >> THEN digits ELSE BackslashRun(rest)

\* The second group, "/" and the third group, after "bytes <g1>-".
MatchEnd(s, g1, rest, g2) ==
    IF g2 # << >> /\ Len(rest) > Len(g2) /\ rest[Len(g2) + 1] = "/"
    THEN <<s, g1, g2, Group3(Drop(rest, Len(g2) + 1), DigitRun(Drop(rest, Len(g2) + 1)))>>
    ELSE << >>

\* The first group and "-", after "bytes ".
MatchStart(s, rest, g1) ==
    IF g1 # << >> /\ Len(rest) > Len(g1) /\ rest[Len(g1) + 1] = "-"
    THEN MatchEnd(s, g1, Drop(rest, Len(g1) + 1), DigitRun(Drop(rest, Len(g1) + 1)))
    ELSE << >>

MatchAt(s) ==
    IF IsPrefix(BytesLit, s)
    THEN MatchStart(s, Drop(s, Len(BytesLit)), DigitRun(Drop(s, Len(BytesLit))))
    ELSE << >>

\* contentRangeRegexp.FindStringSubmatch: the leftmost match (the expression is
\* not anchored), or no submatches.
RECURSIVE FindStringSubmatch(_)
FindStringSubmatch(s) ==
    IF s = << >> THEN << >>
    ELSE IF IsPrefix(BytesLit, s) /\ MatchAt(s) # << >> THEN MatchAt(s)
    ELSE FindStringSubmatch(Tail(s))

\* Lines 204-238 of getContentLength, the submatches found.  endByte+1 is
\* unsigned arithmetic: it wraps at MaxUint64.
CheckRange(submatches, startByte, endByte, size, readerOffset, readerSize) ==
    IF ~startByte.ok THEN [size |-> 0, err |-> "ErrParseStart"]
    ELSE IF startByte.val # readerOffset THEN [size |-> 0, err |-> "ErrStartMismatch"]
    ELSE IF ~endByte.ok THEN [size |-> 0, err |-> "ErrParseEnd"]
    ELSE IF submatches[4] = <<"*">> THEN [size |-> -1, err |-> "nil"]
    ELSE IF ~size.ok THEN [size |-> 0, err |-> "ErrParseTotal"]
    ELSE IF (endByte.val + 1) % (MaxUint64 + 1) # size.val
         THEN [size |-> 0, err |-> "ErrRangeStopsEarly"]
    ELSE IF readerSize > 0 /\ size.val # readerSize
         THEN [size |-> 0, err |-> "ErrSizeChanged"]
    ELSE IF size.val > MaxInt64 THEN [size |-> 0, err |-> "ErrSizeTooBig"]
    ELSE [size |-> size.val, err |-> "nil"]

ParseRange(submatches, readerOffset, readerSize) ==
    IF Len(submatches) < 4 THEN [size |-> 0, err |-> "ErrParseContentRange"]
    ELSE CheckRange(submatches, ParseUint(submatches[2]), ParseUint(submatches[3]),
                    ParseUint(submatches[4]), readerOffset, readerSize)

\* getContentLength(contentRange, readerOffset, readerSize)
getContentLength(contentRange, readerOffset, readerSize) ==
    ParseRange(FindStringSubmatch(contentRange), readerOffset, readerSize)

(***************************************************************************)
(* Response bodies, responses and the transport.                           *)
(***************************************************************************)
\* A body is the bytes it still delivers and how it ends once they are out:
\* with io.EOF or with a read error.
NilRC ==
    [nil |-> TRUE, data |-> << >>, end |-> "EOF"]

Body(data, end) ==
    [nil |-> FALSE, data |-> data, end |-> end]

\* rc.Read(p) with len(p) = L.  n bytes are delivered; the body's end (io.EOF or
\* the error) is reported by a read that finds nothing left, or together with
\* the last bytes (withEnd), as io.Reader allows and net/http's body does.
CanRead(rc, L, n, withEnd) ==
    /\ n <= Min(L, Len(rc.data))
    /\ IF rc.data = << >> THEN withEnd ELSE n >= 1
    /\ withEnd => n = Len(rc.data)

BodyRead(rc, n, withEnd) ==
    [rc |-> [rc EXCEPT !.data = Drop(rc.data, n)],
     bytes |-> SubSeq(rc.data, 1, n),
     err |-> IF withEnd THEN rc.end ELSE "nil"]

\* A Content-Range header value: bytes <s>-<e>/<t>.
MkContentRange(s, e, t) ==
    BytesLit \o Itoa(s) \o <<"-">> \o Itoa(e) \o <<"/">> \o t

\* The answer of one transport.RoundTrip: an error, or a response.
TransportError ==
    [err |-> "TransportErr", status |-> 0, cl |-> -1, cr |-> << >>,
     loc |-> FALSE, data |-> << >>, end |-> "EOF"]

HttpResponse(status, cl, cr, loc, data, end) ==
    [err |-> "nil", status |-> status, cl |-> cl, cr |-> cr,
     loc |-> loc, data |-> data, end |-> end]

\* A redirect that names a Location the client can follow.
RedirectResponse ==
    HttpResponse(StatusFound, 0, << >>, TRUE, << >>, "EOF")

\* The body of an error response.
ErrorText ==
    <<JunkByte>>

\* What http.ServeContent answers for the resource, as in the tests: the whole
\* resource to a request without Range, the rest of it to Range: bytes=t- with
\* t inside it, and 416 with an error text to a range that starts at its end or
\* beyond.
ServeContent(t) ==
    IF t = 0
    THEN HttpResponse(StatusOK, ResourceLen, << >>, FALSE, Resource, "EOF")
    ELSE IF t < ResourceLen
    THEN HttpResponse(StatusPartialContent, ResourceLen - t,
                  MkContentRange(t, ResourceLen - 1, Itoa(ResourceLen)),
                  FALSE, Suffix(t), "EOF")
    ELSE HttpResponse(StatusRangeNotSatisfiable, 1, << >>, FALSE, ErrorText, "EOF")

\* The same answers over a connection that may break: the body may stop early,
\* with io.EOF or with an error, and the round trip itself may fail.
Prefixes(d) ==
    {SubSeq(d, 1, k) : k \in 0..Len(d)}

FlakyReplies(t) ==
    LET r == ServeContent(t)
    IN  {TransportError} \cup
        {[r EXCEPT !.data = d, !.end = e] : d \in Prefixes(r.data), e \in {"EOF", "IOErr"}}

\* Any server: every status the switch of reader distinguishes, with headers and
\* bodies that may or may not fit the request.
\* Content-Range values: none, one that does not parse, one inside other text,
\* the right one, and ones that are wrong in one respect each: the start, the
\* end against the total, the total against the resource, an end+1 that wraps
\* to the total, and an unknown total.
AnyContentRanges(t) ==
    {<< >>, <<"x">>,
     <<"x">> \o MkContentRange(t, ResourceLen - 1, Itoa(ResourceLen)) \o <<"x">>,
     MkContentRange(t, ResourceLen - 1, Itoa(ResourceLen)),
     MkContentRange(t + 1, ResourceLen - 1, Itoa(ResourceLen)),
     MkContentRange(t, ResourceLen, Itoa(ResourceLen)),
     MkContentRange(t, ResourceLen, Itoa(ResourceLen + 1)),
     MkContentRange(t, MaxUint64, Itoa(0)),
     MkContentRange(t, ResourceLen - 1, <<"*">>)}

\* 200 with the whole resource and a Content-Length that is absent, right or
\* wrong; 204; 206 with each Content-Range; a redirect without Location; 416.
AnyReplies(t) ==
    {TransportError}
    \cup {HttpResponse(StatusOK, cl, << >>, FALSE, Resource, "EOF") :
            cl \in {-1, ResourceLen, ResourceLen + 1}}
    \cup {HttpResponse(StatusNoContent, 0, << >>, FALSE, << >>, "EOF")}
    \cup {HttpResponse(StatusPartialContent, -1, cr, FALSE, Suffix(t), "EOF") :
            cr \in AnyContentRanges(t)}
    \cup {HttpResponse(st, -1, << >>, FALSE, ErrorText, "EOF") :
            st \in {StatusFound, StatusRangeNotSatisfiable}}

\* The answers of the server of a run to a request for offset t: k redirects
\* with a Location, then the answer proper (which the loop of reader does not
\* come to when k is RedirectLimit).
Answer(k, final) ==
    [k |-> k, final |-> final]

Answers(srv, t) ==
    CASE srv = "honest" -> {Answer(0, ServeContent(t))}
      [] srv = "flaky" -> {Answer(0, f) : f \in FlakyReplies(t)}
      [] OTHER -> {Answer(0, f) : f \in AnyReplies(t)}
                  \cup {Answer(k, ServeContent(t)) :
                           k \in {1, RedirectLimit - 1, RedirectLimit}}

(***************************************************************************)
(* reader: one request for readerOffset, following redirects.              *)
(***************************************************************************)
\* Lines 145-148: the request reader sends first, with a Range header for a
\* nonzero offset (range 0 stands for no Range header).
Request(readerOffset) ==
    [method |-> "GET", range |-> readerOffset]

\* Lines 184-189: the request for the next hop, with the method and the
\* headers of the one before.
NewRequest(req) ==
    [method |-> req.method, range |-> req.range]

\* The request of the i-th round trip (i from 0) of one call of reader.
RECURSIVE RequestAt(_, _)
RequestAt(i, readerOffset) ==
    IF i = 0 THEN Request(readerOffset)
    ELSE NewRequest(RequestAt(i - 1, readerOffset))

\* The i-th answer of the transport: k redirects, then final.
ReplyAt(i, k, final) ==
    IF i < k THEN RedirectResponse ELSE final

ReaderResult(rc, size, resp, err, trips, dropped) ==
    [rc |-> rc, size |-> size, resp |-> resp, err |-> err,
     trips |-> trips, dropped |-> dropped]

\* Lines 170-174: the 206 response with a Content-Range, s what
\* getContentLength returned.  resp is the response's status, 0 for a nil
\* *http.Response.
PartialContent(body, s, i) ==
    IF s.err # "nil"
    THEN ReaderResult(NilRC, -1, 0, s.err, i + 1, i + 1)
    ELSE ReaderResult(body, s.size, 0, "nil", i + 1, i)

\* The switch without the test of readerOffset: a 200 or 204 is taken as the
\* stream whatever was asked for.
DispatchAnyOffset(r, readerOffset, readerSize, i) ==
    IF r.status \in {StatusOK, StatusNoContent}
    THEN ReaderResult(Body(r.data, r.end), r.cl, r.status, "nil", i + 1, i)
    ELSE IF r.status = StatusPartialContent
    THEN IF r.cr = << >>
         THEN ReaderResult(NilRC, -1, 0, "ErrNoContentRange", i + 1, i + 1)
         ELSE PartialContent(Body(r.data, r.end),
                        getContentLength(r.cr, readerOffset, readerSize), i)
    ELSE ReaderResult(Body(r.data, r.end), -1, r.status, "nil", i + 1, i)

\* The body of the switch on resp.StatusCode for a response that ends the loop.
Dispatch(r, readerOffset, readerSize, i) ==
    IF r.status \in {StatusOK, StatusNoContent}
    THEN IF readerOffset = 0
         THEN ReaderResult(Body(r.data, r.end),
                           r.cl, r.status, "nil", i + 1, i)
         ELSE ReaderResult(NilRC, -1, 0, "ErrCodeForByteRange", i + 1, i + 1)
    ELSE IF r.status = StatusPartialContent
    THEN IF r.cr = << >>
         THEN ReaderResult(NilRC, -1, 0, "ErrNoContentRange", i + 1, i + 1)
         ELSE PartialContent(Body(r.data, r.end),
                        getContentLength(r.cr, readerOffset, readerSize), i)
    ELSE ReaderResult(Body(r.data, r.end),
                      -1, r.status, "nil", i + 1, i)

RECURSIVE readerLoop(_, _, _, _, _)
\* The loop running out taken as a failure.
LastResponseRefused(last, readerOffset, i) ==
    ReaderResult(NilRC, -1, 0, "ErrTooManyRedirects", i, i)

\* Line 195: the loop ran out with resp the last redirect.
LastResponse(last, readerOffset, i) ==
    ReaderResult(Body(last.data, last.end),
                 -1, last.status, "nil", i, i - 1)

readerLoop(i, k, final, readerOffset, readerSize) ==
    IF i >= RedirectLimit
    THEN LastResponse(ReplyAt(i - 1, k, final), readerOffset, i)
    ELSE IF ReplyAt(i, k, final).err # "nil"
    THEN ReaderResult(NilRC, -1, 0, ReplyAt(i, k, final).err, i + 1, i)
    ELSE IF ReplyAt(i, k, final).status = StatusFound /\ ReplyAt(i, k, final).loc
    THEN readerLoop(i + 1, k, final, readerOffset, readerSize)
    ELSE Dispatch(ReplyAt(i, k, final), readerOffset, readerSize, i)

\* reader(ctx, transport, req, readerOffset, readerSize), the transport
\* answering with k redirects and then final.
reader(readerOffset, readerSize, k, final) ==
    readerLoop(0, k, final, readerOffset, readerSize)

(***************************************************************************)
(* Seeker.  A Seeker is the record of its fields; every method is an       *)
(* operator from the Seeker before the call and the environment's answers  *)
(* to the Seeker after it and the values returned.                         *)
(***************************************************************************)
\* NewSeeker(ctx, transport, req)
NewSeeker ==
    [rc |-> NilRC, offset |-> 0, size |-> -1, firstResponse |-> 0]

\* What one call did to the transport: the request it made (if any) for
\* target, the status and Content-Range that ended it, its error, the round
\* trips made, the bodies received and left open, and the last request sent.
NoSeek ==
    [did |-> FALSE, target |-> 0, status |-> 0, cr |-> << >>, err |-> "nil",
     trips |-> 0, dropped |-> 0, req |-> Request(0)]

Sought(target, k, final, r) ==
    [did |-> TRUE, target |-> target,
     status |-> IF r.err = "TransportErr" THEN 0
                ELSE IF k >= RedirectLimit THEN StatusFound ELSE final.status,
     cr |-> IF k >= RedirectLimit THEN << >> ELSE final.cr,
     err |-> r.err, trips |-> r.trips, dropped |-> r.dropped,
     req |-> RequestAt(r.trips - 1, target)]

\* What a method returns, with the Seeker it leaves: n is the int or int64
\* result, closes the number of bodies it closed.
Result(s, n, err, bytes, sought, closes) ==
    [s |-> s, n |-> n, err |-> err, bytes |-> bytes, sought |-> sought, closes |-> closes]

\* s.reset(): closes the open body, if any.
reset(s) ==
    [s EXCEPT !.rc = NilRC]

Closes(s) ==
    IF s.rc.nil THEN 0 ELSE 1

\* A seek that drops the stream before it knows whether reader succeeded.
SeekInstallResetFirst(s, offset, r, sought) ==
    IF r.err # "nil"
    THEN Result(reset(s), 0, r.err, << >>, sought, Closes(s))
    ELSE Result([rc |-> r.rc,
                 offset |-> offset,
                 size |-> r.size,
                 firstResponse |-> IF offset = 0 THEN r.resp ELSE s.firstResponse],
                0, "nil", << >>, sought, Closes(s))

\* Lines 96-106 of seek, r what reader returned.
SeekInstall(s, offset, r, sought) ==
    IF r.err # "nil"
    THEN Result(s, 0, r.err, << >>, sought, 0)
    ELSE Result([rc |-> r.rc,
                 offset |-> offset,
                 size |-> r.size,
                 firstResponse |-> IF offset = 0 THEN r.resp ELSE s.firstResponse],
                0, "nil", << >>, sought, Closes(s))

SeekWith(s, offset, k, final, r) ==
    SeekInstall(s, offset, r, Sought(offset, k, final, r))

\* s.seek(ctx, offset)
seek(s, offset, k, final) ==
    SeekWith(s, offset, k, final, reader(offset, s.size, k, final))

\* Read without lines 64-69: the error of the stream is passed on as it is and
\* the stream is kept.
ReadEndAsItIs(s1, b, n, sought, closes) ==
    Result(s1, n, b.err, b.bytes, sought, closes)

\* Lines 62-69 of Read: s1 is the Seeker after s.offset += uint64(n), b what
\* s.rc.Read(p) returned.
ReadEnd(s1, b, n, sought, closes) ==
    IF b.err # "nil" /\ s1.offset < s1.size
    THEN Result(reset(s1), n,
                IF b.err = "EOF" THEN "ErrUnexpectedEOF" ELSE b.err,
                b.bytes, sought, closes + Closes(s1))
    ELSE Result(s1, n, b.err, b.bytes, sought, closes)

\* Lines 61-69 of Read, the stream being there.
ReadBody(s, n, withEnd, sought, closes) ==
    ReadEnd([s EXCEPT !.rc = BodyRead(s.rc, n, withEnd).rc, !.offset = s.offset + n],
            BodyRead(s.rc, n, withEnd), n, sought, closes)

\* Lines 54-59 of Read: the seek made when there is no stream, the transport
\* answering with k redirects and final; nothing when there is one.
LazySeek(s, k, final) ==
    IF s.rc.nil
    THEN seek(s, s.offset, k, final)
    ELSE Result(s, 0, "nil", << >>, NoSeek, 0)

\* Lines 56-69 of Read, sr the result of lines 54-55.
ReadAfterSeek(s, sr, n, withEnd) ==
    IF sr.err # "nil"
    THEN Result(s, 0, sr.err, << >>, sr.sought, 0)
    ELSE ReadBody(sr.s, n, withEnd, sr.sought, sr.closes)

\* Seeker.Read(p): the transport answers the request, if one is made, with k
\* redirects and final; the body answers with n bytes.
Read(s, k, final, n, withEnd) ==
    ReadAfterSeek(s, LazySeek(s, k, final), n, withEnd)

\* Whether the body Read reads from can answer a Read(p), len(p) = L, with n
\* bytes (and its end).
CanReadAfterSeek(sr, L, n, withEnd) ==
    IF sr.err # "nil" THEN n = 0 /\ ~withEnd
    ELSE CanRead(sr.s.rc, L, n, withEnd)

\* The target Seeker.Seek computes from (offset, whence), and the error it
\* returns before making any request.
NewOffset(s, offset, whence) ==
    CASE whence = SeekStart -> offset
      [] whence = SeekCurrent -> s.offset + offset
      [] whence = SeekEnd -> s.size + offset
      [] OTHER -> 0

SeekArgError(s, offset, whence) ==
    IF whence = SeekEnd /\ s.size <= 0 THEN "ErrContentLengthNotKnown"
    ELSE IF NewOffset(s, offset, whence) < 0 THEN "ErrNegativeOffset"
    ELSE "nil"

Whences ==
    {SeekStart, SeekCurrent, SeekEnd}

\* Largest target the model seeks to.
MaxSeek ==
    ResourceLen + 1

\* The offsets a caller passes to Seek with each whence: every absolute
\* position up to MaxSeek and one negative one, a step back, none or a step
\* forward from the current position, and the start, the last byte, the end
\* and one past the end counted from the end.
SeekOffsets(whence) ==
    IF whence = SeekStart THEN (0 - 1)..MaxSeek
    ELSE IF whence = SeekCurrent THEN {0 - 1, 0, 1}
    ELSE {0 - ResourceLen, 0 - 1, 0, 1}

\* The calls of Seek the model makes, the targets of those that pass lines
\* 74-89 for Seeker s, and the errors of those that do not.
SeekCalls ==
    UNION {{[whence |-> whence, offset |-> offset] : offset \in SeekOffsets(whence)} :
              whence \in Whences}

SeekTargets(s) ==
    {t \in {NewOffset(s, c.offset, c.whence) :
               c \in {d \in SeekCalls : SeekArgError(s, d.offset, d.whence) = "nil"}} :
        t <= MaxSeek}

SeekArgErrors(s) ==
    {SeekArgError(s, c.offset, c.whence) : c \in SeekCalls} \ {"nil"}

\* Line 91 of Seek: return newOffset, s.seek(s.ctx, uint64(newOffset))
SeekReturn(newOffset, sr) ==
    Result(sr.s, newOffset, sr.err, << >>, sr.sought, sr.closes)

\* Seeker.Seek(offset, whence)
Seek(s, offset, whence, k, final) ==
    IF SeekArgError(s, offset, whence) # "nil"
    THEN Result(s, 0, SeekArgError(s, offset, whence), << >>, NoSeek, 0)
    ELSE SeekReturn(NewOffset(s, offset, whence),
                    seek(s, NewOffset(s, offset, whence), k, final))

\* A Close that also rewinds the Seeker.
CloseAndRewind(s) ==
    Result([reset(s) EXCEPT !.offset = 0], 0, "nil", << >>, NoSeek, Closes(s))

\* Seeker.Close()
Close(s) ==
    Result(reset(s), 0, "nil", << >>, NoSeek, Closes(s))

\* Lines 118-122 of Response, sr the result of the seek of line 117.
ResponseAfterSeek(s, sr) ==
    IF sr.err # "nil"
    THEN Result(s, 0, sr.err, << >>, sr.sought, 0)
    ELSE Result(sr.s, sr.s.firstResponse, "nil", << >>, sr.sought, sr.closes)

\* Seeker.Response(): n is the status of the response returned, 0 for nil.
Response(s, k, final) ==
    IF s.firstResponse = 0
    THEN ResponseAfterSeek(s, seek(s, 0, k, final))
    ELSE Result(s, s.firstResponse, "nil", << >>, NoSeek, 0)

\* Seeker.Size(), Seeker.Offset()
Size(s) ==
    s.size

Offset(s) ==
    s.offset

(***************************************************************************)
(* mustReader: the retrying reader.  Its Read runs over several answers of *)
(* the environment, so it is a small machine: pc says where it stands.     *)
(***************************************************************************)
\* NewMustReader(rsc, errorHandler): offset starts at 0.
NewMustReader ==
    [made |-> TRUE, offset |-> 0, pc |-> "idle", L |-> 0, n |-> 0, bytes |-> << >>,
     h |-> "none"]

NoMustReader ==
    [made |-> FALSE, offset |-> 0, pc |-> "idle", L |-> 0, n |-> 0, bytes |-> << >>,
     h |-> "none"]

\* What errorHandler(err) can answer: "skip" stands for errorHandler == nil,
\* where the call is not made.
HandlerResults(hd) ==
    CASE hd = "absent" -> {"skip"}
      [] hd = "alwaysNil" -> {"nil"}
      [] OTHER -> {"nil", "HandlerErr"}

\* The handler let the retry layer go on: it returned nil, or there is none.
GoesOn(h) ==
    h \in {"skip", "nil"}

Frame(m, to, n, err) ==
    [m |-> m, to |-> to, n |-> n, err |-> err]

\* mustReader.read without the return of line 40: the handler is called and
\* its answer is not looked at.
ReadFrameUnheeded(m, r, h) ==
    IF r.err = "nil" \/ r.err = "EOF"
    THEN Frame([m EXCEPT !.offset = m.offset + r.n, !.n = r.n, !.bytes = r.bytes,
                         !.pc = "idle", !.h = "none"],
               "return", r.n, r.err)
    ELSE Frame([m EXCEPT !.offset = m.offset + r.n, !.n = r.n, !.bytes = r.bytes,
                         !.pc = "seek", !.h = h],
               "seek", 0, "nil")

\* mustReader.read returning the Seeker's error where line 40 returns the
\* handler's.
ReadFrameOwnError(m, r, h) ==
    IF r.err = "nil" \/ r.err = "EOF"
    THEN Frame([m EXCEPT !.offset = m.offset + r.n, !.n = r.n, !.bytes = r.bytes,
                         !.pc = "idle", !.h = "none"],
               "return", r.n, r.err)
    ELSE IF ~GoesOn(h)
    THEN Frame([m EXCEPT !.offset = m.offset + r.n, !.n = r.n, !.bytes = r.bytes,
                         !.pc = "idle", !.h = h],
               "return", r.n, r.err)
    ELSE Frame([m EXCEPT !.offset = m.offset + r.n, !.n = r.n, !.bytes = r.bytes,
                         !.pc = "seek", !.h = h],
               "seek", 0, "nil")

\* Lines 28-42 of mustReader.read: one Read of the Seeker and the decision that
\* follows it.  r is the result of r.rsc.Read(p), h the handler's answer.  The
\* frame returns (n, err) to the caller, or goes to the re-seek loop.
ReadFrame(m, r, h) ==
    IF r.err = "nil" \/ r.err = "EOF"
    THEN Frame([m EXCEPT !.offset = m.offset + r.n, !.n = r.n, !.bytes = r.bytes,
                         !.pc = "idle", !.h = "none"],
               "return", r.n, r.err)
    ELSE IF ~GoesOn(h)
    THEN Frame([m EXCEPT !.offset = m.offset + r.n, !.n = r.n, !.bytes = r.bytes,
                         !.pc = "idle", !.h = h],
               "return", r.n, h)
    ELSE Frame([m EXCEPT !.offset = m.offset + r.n, !.n = r.n, !.bytes = r.bytes,
                         !.pc = "seek", !.h = h],
               "seek", 0, "nil")

\* Lines 44-59 of mustReader.read: one turn of the re-seek loop.  r is the
\* result of r.rsc.Seek(int64(r.offset), io.SeekStart), h the handler's answer.
\* After a seek that succeeded the frame is left for a new one: return r.read(p).
SeekFrame(m, r, h) ==
    IF r.err = "nil"
    THEN Frame([m EXCEPT !.pc = "read", !.n = 0, !.bytes = << >>], "read", 0, "nil")
    ELSE IF r.err = "ErrCodeForByteRange"
    THEN Frame([m EXCEPT !.pc = "idle", !.n = 0, !.bytes = << >>, !.h = "none"],
               "return", 0, r.err)
    ELSE IF ~GoesOn(h)
    THEN Frame([m EXCEPT !.pc = "idle", !.h = h], "return", m.n, h)
    ELSE Frame([m EXCEPT !.pc = "seek", !.h = h], "seek", 0, "nil")

(***************************************************************************)
(* mustReaderTransport.RoundTrip.                                          *)
(***************************************************************************)
\* The loop of RoundTrip going on after the handler returned an error.
RoundTripFrameUnheeded(r, h) ==
    IF r.err = "nil" THEN [pc |-> "resp", failed |-> FALSE, h |-> "none", err |-> "nil"]
    ELSE [pc |-> "seek", failed |-> TRUE, h |-> h, err |-> "nil"]

\* Lines 82-92 of RoundTrip: one turn of the loop.  r is the result of
\* rsc.Seek(0, io.SeekStart), h the handler's answer.
RoundTripFrame(r, h) ==
    IF r.err = "nil" THEN [pc |-> "resp", failed |-> FALSE, h |-> "none", err |-> "nil"]
    ELSE IF ~GoesOn(h) THEN [pc |-> "vetoed", failed |-> TRUE, h |-> h, err |-> h]
    ELSE [pc |-> "seek", failed |-> TRUE, h |-> h, err |-> "nil"]

\* The retry loop entered for a request that is not a GET.
DelegatedThenRetried(first) ==
    IF first.err = "nil"
    THEN [pc |-> "delegated", failed |-> FALSE, h |-> "none",
          status |-> first.status, err |-> "nil"]
    ELSE [pc |-> "seek", failed |-> TRUE, h |-> "none", status |-> 0, err |-> "nil"]

\* Lines 76-78 of RoundTrip: return t.baseTransport.RoundTrip(r), first what
\* the base transport answers.
Delegated(first) ==
    [pc |-> "delegated", failed |-> first.err # "nil", h |-> "none",
     status |-> first.status, err |-> first.err]

\* RoundTrip of transport.go, lines 28-54: one turn of the loop on
\* rsc.Response() and, when it leaves the loop, the return.  r is the result of
\* rsc.Response(), h the handler's answer, size rsc.Size().  The response is nil
\* where the Seeker holds no first response; resp.Body of a nil response
\* cannot be assigned.
TransportFrame(r, h, size) ==
    IF r.err = "nil"
    THEN IF size <= 0
         THEN [pc |-> "done", failed |-> FALSE, h |-> "none", status |-> r.n, err |-> "nil"]
         ELSE IF r.n = 0
         THEN [pc |-> "panic", failed |-> FALSE, h |-> "none", status |-> 0,
               err |-> "NilDereference"]
         ELSE [pc |-> "done", failed |-> FALSE, h |-> "none", status |-> r.n, err |-> "nil"]
    ELSE IF ~GoesOn(h)
    THEN [pc |-> "vetoed", failed |-> TRUE, h |-> h, status |-> 0, err |-> h]
    ELSE [pc |-> "response", failed |-> TRUE, h |-> h, status |-> 0, err |-> "nil"]

(***************************************************************************)
(* The state.                                                              *)
(***************************************************************************)
VARIABLES
    srv,       \* the server of this run: "honest", "flaky" or "any"
    handler,   \* the error handler of this run: "absent", "alwaysNil" or "any"
    sk,        \* the Seeker
    mr,        \* the mustReader over it, once made
    rt,        \* mustReaderTransport.RoundTrip: where it stands
    ret,       \* the last call of a Seeker method and what it returned
    lastSeek,  \* the request that call made, if it made one
    mret,      \* what the retry layer returned to its caller, once it has
    track      \* the bytes handed to the caller since the last repositioning

vars ==
    <<srv, handler, sk, mr, rt, ret, lastSeek, mret, track>>

Handlers ==
    {"absent", "alwaysNil", "any"}

Returned(op, r) ==
    [op |-> op, n |-> r.n, err |-> r.err, closes |-> r.closes]

NoReturn ==
    [op |-> "none", n |-> 0, err |-> "nil", closes |-> 0]

MustReturned(op, n, err) ==
    [op |-> op, n |-> n, err |-> err]

NoMustReturn ==
    MustReturned("none", 0, "nil")

NoRoundTrip ==
    [pc |-> "none", failed |-> FALSE, h |-> "none", method |-> "none"]

\* The caller's view: where its reading started, the bytes it was handed since,
\* and whether it did nothing but read.
NewTrack(start) ==
    [start |-> start, out |-> << >>, clean |-> TRUE]

Delivered(t, bytes) ==
    IF srv = "any" THEN t ELSE [t EXCEPT !.out = t.out \o bytes]

\* The state after construction, for a server and a handler of the given kinds.
InitWith(servers, handlers) ==
    /\ srv \in servers
    /\ handler \in handlers
    /\ sk = NewSeeker
    /\ mr = NoMustReader
    /\ rt = NoRoundTrip
    /\ ret = NoReturn
    /\ lastSeek = NoSeek
    /\ mret = NoMustReturn
    /\ track = NewTrack(0)

\* The caller is between calls.
Idle ==
    /\ mr.pc = "idle"
    /\ rt.pc \in {"none", "done"}

\* The environment's answers to a request for offset t, when one is made.
AnswersIf(asked, t) ==
    IF asked THEN Answers(srv, t) ELSE {Answer(0, TransportError)}

(***************************************************************************)
(* The caller uses the Seeker directly.                                    *)
(***************************************************************************)
CallRead ==
    /\ Idle
    /\ rt.pc = "none"
    /\ ~mr.made
    /\ \E a \in AnswersIf(sk.rc.nil, sk.offset) :
       \E sr \in {LazySeek(sk, a.k, a.final)} :
       \E L \in 1..MaxBuf, n \in 0..MaxBuf, withEnd \in BOOLEAN :
          /\ CanReadAfterSeek(sr, L, n, withEnd)
          /\ \E r \in {ReadAfterSeek(sk, sr, n, withEnd)} :
                /\ r.s.offset <= MaxOffset
                /\ sk' = r.s
                /\ ret' = Returned("Read", r)
                /\ lastSeek' = r.sought
                /\ track' = Delivered(track, r.bytes)
    /\ UNCHANGED <<srv, handler, mr, rt, mret>>

\* Seek(offset, whence), for every call of SeekCalls.  Calls that lines 74-89
\* of Seek turn into the same target, or refuse with the same error, have the
\* same outcome: they are taken together.
CallSeek ==
    /\ Idle
    /\ rt.pc = "none"
    /\ ~mr.made
    /\ \E r \in {Result(sk, 0, e, << >>, NoSeek, 0) : e \in SeekArgErrors(sk)}
             \cup UNION {{SeekReturn(t, seek(sk, t, a.k, a.final)) :
                             a \in Answers(srv, t)} : t \in SeekTargets(sk)} :
          /\ sk' = r.s
          /\ ret' = Returned("Seek", r)
          /\ lastSeek' = r.sought
          /\ track' = IF r.err = "nil" /\ srv # "any" THEN NewTrack(r.n) ELSE track
    /\ UNCHANGED <<srv, handler, mr, rt, mret>>

CallResponse ==
    /\ Idle
    /\ rt.pc = "none"
    /\ ~mr.made
    /\ \E a \in AnswersIf(sk.firstResponse = 0, 0) :
       \E r \in {Response(sk, a.k, a.final)} :
          /\ sk' = r.s
          /\ ret' = Returned("Response", r)
          /\ lastSeek' = r.sought
          /\ track' = [track EXCEPT !.clean = FALSE]
    /\ UNCHANGED <<srv, handler, mr, rt, mret>>

CallClose ==
    /\ Idle
    /\ \E r \in {Close(sk)} :
          /\ sk' = r.s
          /\ ret' = Returned("Close", r)
          /\ lastSeek' = r.sought
          /\ track' = [track EXCEPT !.clean = FALSE]
    /\ UNCHANGED <<srv, handler, mr, rt, mret>>

(***************************************************************************)
(* The caller reads through a mustReader.                                  *)
(***************************************************************************)
\* NewMustReader(rsc, errorHandler) over the Seeker as it stands.
MakeMustReader ==
    /\ Idle
    /\ rt.pc = "none"
    /\ ~mr.made
    /\ mr' = NewMustReader
    /\ track' = NewTrack(sk.offset)
    /\ ret' = NoReturn
    /\ lastSeek' = NoSeek
    /\ UNCHANGED <<srv, handler, sk, rt, mret>>

\* One frame of mustReader.read(p), len(p) = L.
MustFrame(L) ==
    \E a \in AnswersIf(sk.rc.nil, sk.offset) :
    \E sr \in {LazySeek(sk, a.k, a.final)} :
    \E n \in 0..MaxBuf, withEnd \in BOOLEAN, h \in HandlerResults(handler) :
       /\ CanReadAfterSeek(sr, L, n, withEnd)
       /\ \E r \in {ReadAfterSeek(sk, sr, n, withEnd)} :
          \E f \in {ReadFrame(mr, r, h)} :
             /\ r.s.offset <= MaxOffset
             /\ sk' = r.s
             /\ ret' = Returned("Read", r)
             /\ lastSeek' = r.sought
             /\ mr' = [f.m EXCEPT !.L = IF f.to = "return" THEN 0 ELSE L]
             /\ mret' = IF f.to = "return" THEN MustReturned("Read", f.n, f.err)
                        ELSE NoMustReturn
             /\ track' = IF f.to = "return" THEN Delivered(track, r.bytes) ELSE track

\* mustReader.Read(p)
MustRead ==
    /\ Idle
    /\ mr.made
    /\ \E L \in 1..MaxBuf : MustFrame(L)
    /\ UNCHANGED <<srv, handler, rt>>

\* return r.read(p), after a seek that succeeded
MustReread ==
    /\ mr.pc = "read"
    /\ MustFrame(mr.L)
    /\ UNCHANGED <<srv, handler, rt>>

\* One turn of the loop of mustReader.read.
MustSeek ==
    /\ mr.pc = "seek"
    /\ \E a \in Answers(srv, mr.offset), h \in HandlerResults(handler) :
       \E r \in {Seek(sk, mr.offset, SeekStart, a.k, a.final)} :
       \E f \in {SeekFrame(mr, r, h)} :
          /\ sk' = r.s
          /\ ret' = Returned("Seek", r)
          /\ lastSeek' = r.sought
          /\ mr' = [f.m EXCEPT !.L = IF f.to = "return" THEN 0 ELSE mr.L]
          /\ mret' = IF f.to = "return" THEN MustReturned("Read", f.n, f.err)
                     ELSE NoMustReturn
          /\ track' = IF f.to = "return"
                      THEN Delivered(track, SubSeq(mr.bytes, 1, f.n))
                      ELSE track
    /\ UNCHANGED <<srv, handler, rt>>

(***************************************************************************)
(* The caller sends a request through a mustReaderTransport.               *)
(***************************************************************************)
\* RoundTrip(r) with r.Method # GET: return t.baseTransport.RoundTrip(r)
RoundTripOther ==
    /\ rt.pc = "none"
    /\ ~mr.made
    /\ ret = NoReturn
    /\ \E a \in Answers(srv, 0) :
       \E d \in {Delegated(ReplyAt(0, a.k, a.final))} :
          /\ rt' = [rt EXCEPT !.pc = d.pc, !.failed = d.failed, !.h = d.h,
                               !.method = "POST"]
          /\ mret' = IF d.pc = "delegated"
                     THEN MustReturned("RoundTrip", d.status, d.err)
                     ELSE NoMustReturn
    /\ UNCHANGED <<srv, handler, sk, mr, ret, lastSeek, track>>

\* RoundTrip(r) with r.Method = GET, up to the loop: rsc := NewSeeker(...)
RoundTripGet ==
    /\ rt.pc = "none"
    /\ ~mr.made
    /\ ret = NoReturn
    /\ rt' = [rt EXCEPT !.pc = "seek", !.method = "GET"]
    /\ sk' = NewSeeker
    /\ UNCHANGED <<srv, handler, mr, ret, lastSeek, mret, track>>

\* One turn of the loop of RoundTrip.
RoundTripSeek ==
    /\ rt.pc = "seek"
    /\ \E a \in Answers(srv, 0), h \in HandlerResults(handler) :
       \E r \in {Seek(sk, 0, SeekStart, a.k, a.final)} :
       \E f \in {RoundTripFrame(r, h)} :
          /\ sk' = r.s
          /\ ret' = Returned("Seek", r)
          /\ lastSeek' = r.sought
          /\ rt' = [rt EXCEPT !.pc = f.pc, !.failed = f.failed, !.h = f.h]
          /\ mret' = IF f.pc = "vetoed" THEN MustReturned("RoundTrip", 0, f.err)
                     ELSE NoMustReturn
    /\ UNCHANGED <<srv, handler, mr, track>>

\* Lines 94-105 of RoundTrip: the mustReader is made and the first response
\* copied.  A Seeker whose first response is nil (a 206 accepted for offset 0)
\* asks for it again; a nil response cannot be copied.
RoundTripResponse ==
    /\ rt.pc = "resp"
    /\ \E a \in AnswersIf(sk.firstResponse = 0, 0) :
       \E r \in {Response(sk, a.k, a.final)} :
          /\ sk' = r.s
          /\ ret' = Returned("Response", r)
          /\ lastSeek' = r.sought
          /\ mr' = NewMustReader
          /\ rt' = [rt EXCEPT !.pc = IF r.n = 0 THEN "panic" ELSE "done"]
          /\ mret' = IF r.n = 0 THEN MustReturned("RoundTrip", 0, "NilDereference")
                     ELSE MustReturned("RoundTrip", r.n, "nil")
          /\ track' = NewTrack(r.s.offset)
    /\ UNCHANGED <<srv, handler>>

\* RoundTrip of transport.go with r.Method = GET, up to the loop.
TransportGet ==
    /\ rt.pc = "none"
    /\ ~mr.made
    /\ ret = NoReturn
    /\ rt' = [rt EXCEPT !.pc = "response", !.method = "GET"]
    /\ sk' = NewSeeker
    /\ UNCHANGED <<srv, handler, mr, ret, lastSeek, mret, track>>

\* One turn of the loop of RoundTrip of transport.go, with the return that
\* follows the loop when Response() succeeded.
TransportTurn ==
    /\ rt.pc = "response"
    /\ \E a \in AnswersIf(sk.firstResponse = 0, 0), h \in HandlerResults(handler) :
       \E r \in {Response(sk, a.k, a.final)} :
       \E f \in {TransportFrame(r, h, Size(r.s))} :
          /\ sk' = r.s
          /\ ret' = Returned("Response", r)
          /\ lastSeek' = r.sought
          /\ rt' = [rt EXCEPT !.pc = f.pc, !.failed = f.failed, !.h = f.h]
          /\ mret' = IF f.pc = "response" THEN NoMustReturn
                     ELSE MustReturned("RoundTrip", f.status, f.err)
          /\ track' = IF f.pc = "done" THEN NewTrack(r.s.offset) ELSE track
    /\ UNCHANGED <<srv, handler, mr>>

(***************************************************************************)
(* Specifications.                                                         *)
(***************************************************************************)
\* The Seeker used directly.
NextSeeker ==
    \/ CallRead
    \/ CallSeek
    \/ CallResponse
    \/ CallClose

\* The retry layer: a mustReader over a new Seeker, or a request through the
\* mustReaderTransport.
NextRetry ==
    \/ CallClose
    \/ MakeMustReader
    \/ MustRead
    \/ MustReread
    \/ MustSeek
    \/ RoundTripOther
    \/ RoundTripGet
    \/ RoundTripSeek
    \/ RoundTripResponse

\* A mustReader made over a Seeker the caller has used before: sought, read
\* from, closed.
NextWrapped ==
    \/ CallRead
    \/ CallSeek
    \/ CallClose
    \/ MakeMustReader
    \/ MustRead
    \/ MustReread
    \/ MustSeek

\* The Seeker over any server.
Init ==
    InitWith({"any"}, {"absent"})

Spec ==
    Init /\ [][NextSeeker]_vars

\* The Seeker over http.ServeContent, as in TestSeek.
InitServe ==
    InitWith({"honest"}, {"absent"})

SpecServe ==
    InitServe /\ [][NextSeeker]_vars

\* The Seeker over http.ServeContent behind a connection that may break.
InitFlaky ==
    InitWith({"flaky"}, {"absent"})

SpecFlaky ==
    InitFlaky /\ [][NextSeeker]_vars

\* The retry layer over a connection that may break and over any server.
InitRetry ==
    InitWith({"flaky", "any"}, Handlers)

SpecRetry ==
    InitRetry /\ [][NextRetry]_vars

\* A used Seeker, then a mustReader over it, the connection breaking now and
\* then and the handler returning nil.
InitWrapped ==
    InitWith({"flaky"}, {"alwaysNil"})

SpecWrapped ==
    InitWrapped /\ [][NextWrapped]_vars

\* One request through the mustReaderTransport, in either of its two versions.
NextRoundTrip ==
    \/ RoundTripOther
    \/ RoundTripGet
    \/ RoundTripSeek
    \/ RoundTripResponse
    \/ TransportGet
    \/ TransportTurn

\* RoundTrip is one sequential call, so what follows its loop runs once the
\* loop is left; and the transport ends up answering the request for offset 0,
\* or the handler ends up returning an error: a loop that keeps turning takes
\* the turn that leaves it.
FairRoundTrip ==
    /\ WF_vars(RoundTripResponse)
    /\ SF_vars(RoundTripSeek /\ rt'.pc # "seek")
    /\ SF_vars(TransportTurn /\ rt'.pc # "response")

SpecRoundTrip ==
    InitRetry /\ [][NextRoundTrip]_vars /\ FairRoundTrip

(***************************************************************************)
(* The contract of the Seeker.                                             *)
(***************************************************************************)
\* C1: over a server that honours ranges, the bytes read since a Seek to t with
\* 0 <= t <= N (or since construction, t = 0) are bytes t, t+1, ... of the
\* resource in order, and when a Read returns end-of-stream they are bytes
\* t..N-1 and Offset() is N.
C1_SeekThenReadReturnsTheRest ==
    (track.clean /\ track.start <= ResourceLen) =>
        /\ IsPrefix(track.out, Suffix(track.start))
        /\ (ret.op = "Read" /\ ret.err = "EOF") =>
              (track.out = Suffix(track.start) /\ Offset(sk) = ResourceLen)

\* C3: a size that is known (non-negative) is never replaced by another value,
\* whatever the call and whatever the server answers.
C3_ConfirmedSizeNeverChanges ==
    [][Size(sk) >= 0 => Size(sk') = Size(sk)]_vars

\* C4: a Read made while the size is known and the offset is at or beyond it
\* returns (0, io.EOF), whether or not the stream is there.
C4_ReadAtTheEndIsEndOfStream ==
    [][(ret'.op = "Read" /\ Size(sk) >= 0 /\ Offset(sk) >= Size(sk)) =>
          (ret'.n = 0 /\ ret'.err = "EOF")]_vars

\* C6: a request for an offset above 0 that is answered with 200 or 204 makes
\* the call fail with ErrCodeForByteRange; the Seeker stays as it was, so the
\* body of that response never becomes its stream, and a Read returns no byte.
C6_FullResponseToRangeRequestFails ==
    [][(lastSeek'.did /\ lastSeek'.target > 0
          /\ lastSeek'.status \in {StatusOK, StatusNoContent}) =>
          /\ ret'.err = "ErrCodeForByteRange"
          /\ sk' = sk
          /\ ret'.op = "Read" => ret'.n = 0]_vars

C6_Witness ==
    /\ lastSeek.did
    /\ lastSeek.target > 0
    /\ lastSeek.status = StatusOK
    /\ ret.op = "Seek"
    /\ ret.err = "ErrCodeForByteRange"

\* C7: a 206 is accepted only with a Content-Range that parses, whose start
\* is the offset asked for and, the total being a number, whose end + 1 is
\* the total.
C7_PartialContentAcceptedOnlyIfConsistent ==
    (lastSeek.did /\ lastSeek.status = StatusPartialContent /\ lastSeek.err = "nil") =>
        /\ Len(FindStringSubmatch(lastSeek.cr)) = 4
        /\ ParseDigits(FindStringSubmatch(lastSeek.cr)[2], 0) = lastSeek.target
        /\ FindStringSubmatch(lastSeek.cr)[4] # <<"*">> =>
              ParseDigits(FindStringSubmatch(lastSeek.cr)[3], 0) + 1
                 = ParseDigits(FindStringSubmatch(lastSeek.cr)[4], 0)

\* C8: a 206 with Content-Range "bytes a-b/*", a the offset asked for, is
\* accepted: the seek succeeds, the size becomes -1 and a Seek leaves the body
\* as the stream.
C8_UnknownTotalIsAccepted ==
    (lastSeek.did /\ lastSeek.status = StatusPartialContent
       /\ lastSeek.cr = MkContentRange(lastSeek.target, ResourceLen - 1, <<"*">>)) =>
        /\ lastSeek.err = "nil"
        /\ Size(sk) = -1
        /\ ret.op = "Seek" => ~sk.rc.nil

\* C9: a Read that ends with an error while the offset is below the known size
\* does not return io.EOF and leaves the Seeker without a stream; a Read that
\* returns io.EOF with a known size has the offset at or beyond it; and a Read
\* of a Seeker without a stream makes a request for the offset the Seeker has.
C9_TruncationIsNotEndOfStream ==
    [][ret'.op = "Read" =>
          /\ (ret'.err # "nil" /\ Size(sk') >= 0 /\ Offset(sk') < Size(sk')) =>
                (ret'.err # "EOF" /\ sk'.rc.nil)
          /\ (ret'.err = "EOF" /\ Size(sk') >= 0) => Offset(sk') >= Size(sk')
          /\ sk.rc.nil => (lastSeek'.did /\ lastSeek'.target = Offset(sk))]_vars

C9_Witness ==
    /\ ret.op = "Read"
    /\ ret.n > 0
    /\ ret.err = "ErrUnexpectedEOF"
    /\ ~lastSeek.did
    /\ sk.rc.nil
    /\ Offset(sk) < Size(sk)

(***************************************************************************)
(* The contract of the retry layer.                                        *)
(***************************************************************************)
\* C2: with a handler that always returns nil and a stream that fails now and
\* then, the bytes a mustReader has returned are a prefix of the resource, and
\* the whole of it once Read has returned io.EOF.
C2_RetryingReaderDeliversTheResource ==
    (handler = "alwaysNil" /\ srv = "flaky" /\ mr.made /\ track.clean) =>
        /\ IsPrefix(track.out, Suffix(track.start))
        /\ (mret.op = "Read" /\ mret.err = "EOF") => track.out = Suffix(track.start)

\* C5 as stated: the retry layer makes another attempt only after a handler
\* call that returned nil, and none when no handler is configured.
C5_RetryOnlyAfterHandlerReturnedNil ==
    /\ mr.pc \in {"seek", "read"} => mr.h = "nil"
    /\ (rt.pc = "seek" /\ rt.failed) => rt.h = "nil"

\* C5 amended: the retry layer makes another attempt only after a handler call
\* that returned nil or with no handler configured; with none configured a
\* mustReader's Read returns nil, io.EOF or ErrCodeForByteRange and nothing
\* else, and RoundTrip returns no error of the Seeker.
C5_RetryUnlessHandlerObjects ==
    /\ mr.pc \in {"seek", "read"} =>
          (mr.h = "nil" \/ (mr.h = "skip" /\ handler = "absent"))
    /\ (rt.pc = "seek" /\ rt.failed) =>
          (rt.h = "nil" \/ (rt.h = "skip" /\ handler = "absent"))
    /\ (handler = "absent" /\ mret.op = "Read") =>
          mret.err \in {"nil", "EOF", "ErrCodeForByteRange"}
    /\ handler = "absent" => rt.pc # "vetoed"

C5_Witness ==
    /\ handler = "absent"
    /\ mr.pc = "seek"
    /\ mr.h = "skip"
    /\ ret.op = "Seek"
    /\ ret.err # "nil"

\* C10: after a seek of the retry layer that failed with a protocol violation
\* no further attempt is made, a handler being configured.
C10_ProtocolViolationsAreNotRetried ==
    (handler # "absent" /\ ret.op = "Seek" /\ lastSeek.did
       /\ lastSeek.err \in {"ErrCodeForByteRange", "ErrNoContentRange",
                             "ErrParseContentRange", "ErrParseStart",
                             "ErrStartMismatch", "ErrParseEnd", "ErrParseTotal",
                             "ErrRangeStopsEarly", "ErrSizeChanged", "ErrSizeTooBig"}) =>
        (mr.pc = "idle" /\ rt.pc # "seek")

\* C11: when the handler answers a failed Read of the Seeker with an error,
\* mustReader.Read returns that error, with the count of that Read, without
\* another call of the Seeker: the frame that called the handler is the one
\* that returns.
C11_HandlerErrorIsReturnedAtOnce ==
    [][(ret'.op = "Read" /\ mr'.h = "HandlerErr") =>
          /\ mr'.pc = "idle"
          /\ mret' = MustReturned("Read", ret'.n, "HandlerErr")
          /\ ret'.err \notin {"nil", "EOF"}]_vars

C11_Witness ==
    /\ ret.op = "Read"
    /\ ret.n > 0
    /\ ret.err = "ErrUnexpectedEOF"
    /\ mr.h = "HandlerErr"
    /\ mr.pc = "idle"
    /\ mret = MustReturned("Read", ret.n, "HandlerErr")

\* C12: a Seek that fails with "content length not known" is made with the
\* size unknown (-1); it and a Seek refused for a negative offset make no
\* request and leave the Seeker as it was; every Seek from the end fails when
\* the size is unknown, and one that passes has the target size + offset.
C12_SeekEndNeedsKnownSize ==
    [][ret'.op = "Seek" =>
          /\ ret'.err = "ErrContentLengthNotKnown" => Size(sk) = -1
          /\ ret'.err \in {"ErrContentLengthNotKnown", "ErrNegativeOffset"} =>
                (~lastSeek'.did /\ sk' = sk /\ ret'.n = 0)
          /\ \A c \in SeekCalls :
                /\ (c.whence = SeekEnd /\ Size(sk) = -1) =>
                      SeekArgError(sk, c.offset, c.whence) # "nil"
                /\ (c.whence = SeekEnd /\ SeekArgError(sk, c.offset, c.whence) = "nil") =>
                      NewOffset(sk, c.offset, c.whence) = Size(sk) + c.offset
                /\ NewOffset(sk, c.offset, c.whence) < 0 =>
                      SeekArgError(sk, c.offset, c.whence) # "nil"]_vars

\* C13: one call of reader makes between 1 and 10 round trips; every request
\* it sends has the method of the first and its Range header; and when the
\* 10th response is a redirect the call succeeds with that response: size -1,
\* and for offset 0 it is the first response.
C13_RedirectsAreBounded ==
    lastSeek.did =>
        /\ lastSeek.trips \in 1..RedirectLimit
        /\ lastSeek.req = Request(lastSeek.target)
        /\ (lastSeek.trips = RedirectLimit /\ lastSeek.status = StatusFound) =>
              /\ lastSeek.err = "nil"
              /\ Size(sk) = -1
              /\ ret.op \in {"Seek", "Response"} => (ret.err = "nil" /\ ~sk.rc.nil)
              /\ lastSeek.target = 0 => sk.firstResponse = StatusFound

C13_Witness ==
    /\ lastSeek.did
    /\ lastSeek.target > 0
    /\ lastSeek.trips = RedirectLimit
    /\ lastSeek.status = StatusFound
    /\ lastSeek.req = Request(lastSeek.target)
    /\ ret.op = "Seek"
    /\ ret.err = "nil"
    /\ Size(sk) = -1

\* C14: RoundTrip of a request that is not a GET ends with the one call of the
\* base transport: what it returns is that answer, no Seeker method has been
\* called, no handler asked and no mustReader made.
C14_OtherMethodsAreDelegated ==
    rt.method = "POST" =>
        /\ rt.pc = "delegated"
        /\ rt.h = "none"
        /\ mret.op = "RoundTrip"
        /\ mret.err \in {"nil", "TransportErr"}
        /\ rt.failed <=> mret.err # "nil"
        /\ sk = NewSeeker
        /\ ~mr.made
        /\ ret = NoReturn
        /\ lastSeek = NoSeek

C14_Witness ==
    /\ rt.method = "POST"
    /\ rt.pc = "delegated"
    /\ mret = MustReturned("RoundTrip", 0, "TransportErr")
    /\ sk = NewSeeker

\* C15: Close closes the open body, once, and leaves the Seeker without a
\* stream and with its offset, size and first response; a Close of a Seeker
\* without a stream closes nothing and changes nothing; neither makes a
\* request; and the Read after a Close makes a request for the offset the
\* Seeker had.
C15_CloseIsIdempotent ==
    [][/\ ret'.op = "Close" =>
             /\ ret'.closes = (IF sk.rc.nil THEN 0 ELSE 1)
             /\ sk' = [sk EXCEPT !.rc = NilRC]
             /\ ~lastSeek'.did
       /\ (ret.op = "Close" /\ ret'.op = "Close") =>
             (ret'.closes = 0 /\ ret'.err = "nil" /\ sk' = sk)
       /\ (ret.op = "Close" /\ ret'.op = "Read") =>
             (lastSeek'.did /\ lastSeek'.target = Offset(sk)
                /\ (lastSeek'.err = "nil" => ~sk'.rc.nil \/ ret'.err # "nil"))]_vars

C15_Witness ==
    /\ ret.op = "Close"
    /\ ret.closes = 1
    /\ sk.rc.nil
    /\ Offset(sk) > 0
    /\ Size(sk) > Offset(sk)

\* C16: when a mustReader is about to re-seek the Seeker, the offset it
\* passes is the offset of the Seeker.
C16_ReseekAtTheOffsetOfTheSeeker ==
    mr.pc = "seek" => mr.offset = Offset(sk)

\* C17: a Seek, or a Read or Response that has to seek, whose seek fails (an
\* argument refused, the request failing, the answer rejected) leaves every
\* field of the Seeker as it was and closes nothing; a Seek that succeeds
\* closes the stream there was, puts the offset at the target and installs
\* the new stream.
C17_FailedSeekChangesNothing ==
    [][/\ (ret'.op = "Seek" /\ ret'.err # "nil") => (sk' = sk /\ ret'.closes = 0)
       /\ (ret'.op \in {"Read", "Response"} /\ lastSeek'.did /\ lastSeek'.err # "nil") =>
             (sk' = sk /\ ret'.closes = 0 /\ ret'.err = lastSeek'.err)
       /\ (ret'.op = "Seek" /\ ret'.err = "nil") =>
             /\ lastSeek'.did
             /\ ret'.closes = (IF sk.rc.nil THEN 0 ELSE 1)
             /\ Offset(sk') = lastSeek'.target
             /\ ret'.n = lastSeek'.target
             /\ ~sk'.rc.nil]_vars

C17_Witness ==
    /\ ret.op = "Seek"
    /\ lastSeek.did
    /\ lastSeek.err \notin {"nil", "TransportErr"}
    /\ ret.err = lastSeek.err
    /\ ret.closes = 0
    /\ ~sk.rc.nil
    /\ Offset(sk) > 0
    /\ Offset(sk) # lastSeek.target

\* C18: Response() leaves the offset where it was, and makes no request once
\* a first response is held.
C18_ResponseKeepsThePosition ==
    [][ret'.op = "Response" =>
          /\ Offset(sk') = Offset(sk)
          /\ sk.firstResponse # 0 => (~lastSeek'.did /\ sk' = sk)]_vars

\* C19: after every call no body received from the transport is left open
\* other than the Seeker's stream: the call that made a request closed or
\* installed every body it received.
C19_NoBodyIsLeftOpen ==
    lastSeek.did => lastSeek.dropped = 0

\* C20: a GET through the mustReaderTransport ends.  Its loop takes another
\* turn only after a failure the handler let pass; it leaves the loop
\* otherwise only in a turn whose request for offset 0 succeeded, and returns
\* a response only then, the first response of the Seeker; when the handler
\* returns an error RoundTrip returns that error, no response, and does
\* nothing more.  With the transport ending up answering or the handler
\* ending up objecting, the call ends: by a return or, where the response is
\* nil, by the panic of dereferencing it.
Looping ==
    {"seek", "response"}

SoughtZero ==
    /\ ret'.op \in {"Seek", "Response"}
    /\ ret'.err = "nil"
    /\ lastSeek'.did /\ lastSeek'.target = 0 /\ lastSeek'.err = "nil"
    /\ Offset(sk') = 0
    /\ ~sk'.rc.nil

C20_RoundTripEnds ==
    /\ [][/\ (rt.pc \in Looping /\ rt'.pc = rt.pc) =>
                (ret'.err # "nil" /\ GoesOn(rt'.h) /\ mret' = NoMustReturn)
          /\ (rt.pc \in Looping /\ rt'.pc \notin Looping \cup {"vetoed"}) => SoughtZero
          /\ (rt'.method = "GET" /\ mret' # mret /\ mret'.n # 0) =>
                /\ rt.pc = "resp" \/ (rt.pc = "response" /\ SoughtZero)
                /\ mret' = MustReturned("RoundTrip", sk'.firstResponse, "nil")
          /\ rt'.pc = "vetoed" =>
                /\ ret'.err # "nil"
                /\ rt'.h = "HandlerErr"
                /\ mret' = MustReturned("RoundTrip", 0, "HandlerErr")
          /\ rt.pc # "vetoed"]_vars
    /\ (rt.pc \in Looping \cup {"resp"}) ~> (rt.pc \in {"done", "panic", "vetoed"})

C20_Witness ==
    /\ rt.pc = "done"
    /\ rt.method = "GET"
    /\ srv = "flaky"
    /\ mret = MustReturned("RoundTrip", sk.firstResponse, "nil")
    /\ mret.n # 0

====
